---- MODULE Spec2Model ----
(***************************************************************************)
(* Order-book synchronization of the Coinbase feed                         *)
(* (cryptofeed/exchanges/coinbase.py): the instance state of class         *)
(* Coinbase, its message_handler with the sequence check, the websocket    *)
(* snapshot and update handlers, the REST snapshot and subscribe.          *)
(*                                                                         *)
(* One cooperative task runs the operations one at a time: an operation is *)
(* started only when no _book_snapshot call is suspended (pending = None). *)
(***************************************************************************)
EXTENDS Integers, Sequences, FiniteSets, TLC

VARIABLES
    l2_book,         \* self._l2_book: symbol -> OrderBook
    order_map,       \* self.order_map: order id -> (price, size)
    order_type_map,  \* self.order_type_map
    seq_no,          \* self.seq_no: None, or symbol -> last accepted sequence number
    pending,         \* the suspended _book_snapshot call, or None
    sent,            \* what subscribe wrote to the connection, in order
    emitted,         \* the callbacks issued by the last operation, in order
    call,            \* the last operation and its input
    pre,             \* the instance state when the last operation started
    outcome,         \* how the last operation ended
    run,             \* the update batches applied back to back to one symbol's book
    steps,           \* operations started so far, where a run is cut short
    task,            \* the _pair_level2_update call followed entry by entry, or None
    seen,            \* what another task of the event loop last read of the books
    subscription,    \* self.subscription: the configured channels with their symbols
    clock,           \* int(time.time()): the wall clock, in seconds
    requests,        \* the signed requests issued so far, each with the clock at its issue
    adjacent,        \* the _book_snapshot call another task is suspended in, or None
    stale,           \* whether a reset or a snapshot overtook the fetch of either call
    revived,         \* whether an overtaken fetch was written into the books
    applied          \* per symbol, the sequence_num of the update applied last

vars == <<l2_book, order_map, order_type_map, seq_no, pending, sent, emitted,
          call, pre, outcome, run, steps, task, seen, subscription, clock, requests,
          adjacent, stale, revived, applied>>

stepVars == <<task, seen>>
signVars == <<subscription, clock, requests>>
raceVars == <<adjacent, stale, revived>>

-----------------------------------------------------------------------------
(* Bounds of the model *)

MaxQty == 2
MaxLen == 2
MaxOrders == 2
MaxSeq == 4
MaxEvents == 2
MaxSteps == 2
MaxRun == 3
MaxClock == 3

-----------------------------------------------------------------------------
(* Values *)

BID == "bid"
ASK == "ask"
L2_BOOK == "l2_book"
TRADES == "trades"

None == [none |-> TRUE]
NoKey == "absent"
NoSeq == -1
EmptyDict == [k \in {} |-> 0]

Symbols == {"S1", "S2"}
Prices == {1, 2}
Quantities == 0 .. MaxQty
WireSides == {"bid", "ask"}

Put(d, k, v) == [x \in (DOMAIN d) \cup {k} |-> IF x = k THEN v ELSE d[x]]
Del(d, k) == [x \in (DOMAIN d) \ {k} |-> d[x]]

SeqsUpTo(S, n) == UNION {[1 .. k -> S] : k \in 0 .. n}

\* A level of a side is a quantity (websocket snapshots and updates) or a
\* dict of order id -> size (REST snapshot).
Level(q) == [qty |-> q]
OrderLevel(orders) == [orders |-> orders]
IsQty(v) == "qty" \in DOMAIN v

OrderBook(bids, asks) == [bid |-> bids, ask |-> asks]

\* For this venue the normalized symbol and the product id are the same
\* string (_parse_symbol_data maps sym.normalized to product_id).
exchange_symbol_to_std_symbol(p) == p

Truthy(sq) == sq # None /\ DOMAIN sq # {}
SeqGet(sq, pair) == IF pair \in DOMAIN sq THEN sq[pair] ELSE 0

-----------------------------------------------------------------------------
(* The state threaded through one run of message_handler *)

Running == "running"
Returned == "returned"
Raised == "raised"
Awaiting == "awaiting"

Enter == [book |-> l2_book, orders |-> order_map, types |-> order_type_map,
          seq |-> seq_no, out |-> <<>>, class |-> NoKey, trace |-> <<>>, status |-> Running,
          resync |-> <<>>]

Snapshot == [book |-> l2_book, orders |-> order_map, seq |-> seq_no, nsent |-> Len(sent)]

BookNote(pair, book, raw, delta) ==
    [kind |-> L2_BOOK, pair |-> pair, book |-> book, raw |-> raw, delta |-> delta]
TradeNote == [kind |-> TRADES]

-----------------------------------------------------------------------------
(* __reset *)

Reset(st) == [st EXCEPT !.orders = EmptyDict, !.types = EmptyDict,
                        !.seq = None, !.book = EmptyDict]

-----------------------------------------------------------------------------
(* _pair_level2_snapshot *)

SideDict(updates, tok) ==
    LET idx == {i \in 1 .. Len(updates) : updates[i].side = tok}
        last(p) == CHOOSE i \in idx : /\ updates[i].price_level = p
                                      /\ \A j \in idx : updates[j].price_level = p => j <= i
    IN [p \in {updates[i].price_level : i \in idx} |-> Level(updates[last(p)].new_quantity)]

\* Variant: the snapshot's levels are merged into the book already held.
PairLevel2SnapshotMerges(st, msg) ==
    LET pair == exchange_symbol_to_std_symbol(msg.product_id)
        bids == SideDict(msg.updates, "bid")
        asks == SideDict(msg.updates, "ask")
        old == IF pair \in DOMAIN st.book THEN st.book[pair]
               ELSE OrderBook(EmptyDict, EmptyDict)
        merge(a, b) == [x \in (DOMAIN a) \cup (DOMAIN b) |->
                           IF x \in DOMAIN b THEN b[x] ELSE a[x]]
        book == Put(st.book, pair, OrderBook(merge(old.bid, bids), merge(old.ask, asks)))
    IN IF msg.product_id = NoKey
       THEN [st EXCEPT !.status = Raised]
       ELSE [st EXCEPT !.book = book,
                       !.out = Append(@, BookNote(pair, book[pair], msg, None))]

PairLevel2Snapshot(st, msg) ==
    LET pair == exchange_symbol_to_std_symbol(msg.product_id)
        bids == SideDict(msg.updates, "bid")
        asks == SideDict(msg.updates, "ask")
        book == Put(st.book, pair, OrderBook(bids, asks))
    IN IF msg.product_id = NoKey
       THEN [st EXCEPT !.status = Raised]
       ELSE [st EXCEPT !.book = book,
                       !.out = Append(@, BookNote(pair, book[pair], msg, None))]

-----------------------------------------------------------------------------
(* _pair_level2_update *)

\* Variants of the loop body: a zero quantity is stored; a removal is
\* recorded although no level existed.
ApplyUpdateStoresZero(acc, update) ==
    LET side == IF update.side = "bid" THEN BID ELSE ASK
        price == update.price_level
        amount == update.new_quantity
    IN [book |-> [acc.book EXCEPT ![side] = Put(@, price, Level(amount))],
        delta |-> [acc.delta EXCEPT ![side] = Append(@, <<price, amount>>)]]

ApplyUpdateRecordsAll(acc, update) ==
    LET side == IF update.side = "bid" THEN BID ELSE ASK
        price == update.price_level
        amount == update.new_quantity
    IN IF amount = 0
       THEN [book |-> [acc.book EXCEPT ![side] = Del(@, price)],
             delta |-> [acc.delta EXCEPT ![side] = Append(@, <<price, 0>>)]]
       ELSE [book |-> [acc.book EXCEPT ![side] = Put(@, price, Level(amount))],
             delta |-> [acc.delta EXCEPT ![side] = Append(@, <<price, amount>>)]]

ApplyUpdate(acc, update) ==
    LET side == IF update.side = "bid" THEN BID ELSE ASK
        price == update.price_level
        amount == update.new_quantity
    IN IF amount = 0
       THEN IF price \in DOMAIN acc.book[side]
            THEN [book |-> [acc.book EXCEPT ![side] = Del(@, price)],
                  delta |-> [acc.delta EXCEPT ![side] = Append(@, <<price, 0>>)]]
            ELSE acc
       ELSE [book |-> [acc.book EXCEPT ![side] = Put(@, price, Level(amount))],
             delta |-> [acc.delta EXCEPT ![side] = Append(@, <<price, amount>>)]]

RECURSIVE ApplyUpdates(_, _)
ApplyUpdates(acc, updates) ==
    IF updates = <<>> THEN acc
    ELSE ApplyUpdates(ApplyUpdate(acc, Head(updates)), Tail(updates))

\* Variant: the batch is applied to an empty book, as a snapshot would be.
PairLevel2UpdateReplaces(st, msg) ==
    LET pair == exchange_symbol_to_std_symbol(msg.product_id)
        res == ApplyUpdates([book |-> OrderBook(EmptyDict, EmptyDict),
                             delta |-> [bid |-> <<>>, ask |-> <<>>]], msg.updates)
    IN IF msg.product_id = NoKey \/ pair \notin DOMAIN st.book
       THEN [st EXCEPT !.status = Raised]
       ELSE [st EXCEPT !.book = Put(@, pair, res.book),
                       !.out = Append(@, BookNote(pair, res.book, msg, res.delta))]

PairLevel2Update(st, msg) ==
    LET pair == exchange_symbol_to_std_symbol(msg.product_id)
        res == ApplyUpdates([book |-> st.book[pair], delta |-> [bid |-> <<>>, ask |-> <<>>]],
                            msg.updates)
    IN IF msg.product_id = NoKey \/ pair \notin DOMAIN st.book
       THEN [st EXCEPT !.status = Raised]
       ELSE [st EXCEPT !.book = Put(@, pair, res.book),
                       !.out = Append(@, BookNote(pair, res.book, msg, res.delta))]

-----------------------------------------------------------------------------
(* message_handler *)

RECURSIVE TradeNotes(_)
TradeNotes(n) == IF n = 0 THEN <<>> ELSE Append(TradeNotes(n - 1), TradeNote)

Dispatch(st, msg, event) ==
    IF msg.channel = "market_trades"
    THEN IF event.type = "update"
         THEN [st EXCEPT !.out = @ \o TradeNotes(event.trades)]
         ELSE st
    ELSE IF msg.channel = "l2_data"
    THEN IF event.type = "update" THEN PairLevel2Update(st, event)
         ELSE IF event.type = "snapshot" THEN PairLevel2Snapshot(st, event)
         ELSE st
    ELSE st

\* The handling of one event of the loop: st.class is the branch it took.
Classify(st, c) == [st EXCEPT !.class = c]

\* Variants of HandleEvent, each with one branch of the sequence check changed.
HandleEventNoGap(st, msg, event) ==
    IF Truthy(st.seq) /\ event.product_id # NoKey /\ msg.sequence_num # NoSeq
    THEN LET pair == exchange_symbol_to_std_symbol(event.product_id)
         IN IF SeqGet(st.seq, pair) = 0
            THEN [Classify(st, "Dropped") EXCEPT !.status = Returned]
            ELSE IF msg.sequence_num <= st.seq[pair]
            THEN [Classify(st, "Stale") EXCEPT !.status = Returned]
            ELSE Dispatch([Classify(st, "Accept") EXCEPT !.seq[pair] = msg.sequence_num],
                          msg, event)
    ELSE Dispatch(Classify(st, "Accept"), msg, event)

HandleEventStaleApplies(st, msg, event) ==
    IF Truthy(st.seq) /\ event.product_id # NoKey /\ msg.sequence_num # NoSeq
    THEN LET pair == exchange_symbol_to_std_symbol(event.product_id)
         IN IF SeqGet(st.seq, pair) = 0
            THEN [Classify(st, "Dropped") EXCEPT !.status = Returned]
            ELSE IF msg.sequence_num <= st.seq[pair]
            THEN [Dispatch(Classify(st, "Stale"), msg, event) EXCEPT !.status = Returned]
            ELSE IF msg.sequence_num # st.seq[pair] + 1
            THEN [Reset(Classify(st, "Gap")) EXCEPT !.status = Awaiting,
                                                    !.resync = Append(@, <<pair>>)]
            ELSE Dispatch([Classify(st, "Accept") EXCEPT !.seq[pair] = msg.sequence_num],
                          msg, event)
    ELSE Dispatch(Classify(st, "Accept"), msg, event)

HandleEventGapKeeps(st, msg, event) ==
    IF Truthy(st.seq) /\ event.product_id # NoKey /\ msg.sequence_num # NoSeq
    THEN LET pair == exchange_symbol_to_std_symbol(event.product_id)
         IN IF SeqGet(st.seq, pair) = 0
            THEN [Classify(st, "Dropped") EXCEPT !.status = Returned]
            ELSE IF msg.sequence_num <= st.seq[pair]
            THEN [Classify(st, "Stale") EXCEPT !.status = Returned]
            ELSE IF msg.sequence_num # st.seq[pair] + 1
            THEN [Classify(st, "Gap") EXCEPT !.status = Awaiting,
                                             !.resync = Append(@, <<pair>>)]
            ELSE Dispatch([Classify(st, "Accept") EXCEPT !.seq[pair] = msg.sequence_num],
                          msg, event)
    ELSE Dispatch(Classify(st, "Accept"), msg, event)

HandleEventNoDrop(st, msg, event) ==
    IF Truthy(st.seq) /\ event.product_id # NoKey /\ msg.sequence_num # NoSeq
    THEN LET pair == exchange_symbol_to_std_symbol(event.product_id)
         IN IF SeqGet(st.seq, pair) = 0
            THEN Dispatch(Classify(st, "Accept"), msg, event)
            ELSE IF msg.sequence_num <= st.seq[pair]
            THEN [Classify(st, "Stale") EXCEPT !.status = Returned]
            ELSE IF msg.sequence_num # st.seq[pair] + 1
            THEN [Reset(Classify(st, "Gap")) EXCEPT !.status = Awaiting,
                                                    !.resync = Append(@, <<pair>>)]
            ELSE Dispatch([Classify(st, "Accept") EXCEPT !.seq[pair] = msg.sequence_num],
                          msg, event)
    ELSE Dispatch(Classify(st, "Accept"), msg, event)

HandleEvent(st, msg, event) ==
    IF Truthy(st.seq) /\ event.product_id # NoKey /\ msg.sequence_num # NoSeq
    THEN LET pair == exchange_symbol_to_std_symbol(event.product_id)
         IN IF SeqGet(st.seq, pair) = 0
            THEN [Classify(st, "Dropped") EXCEPT !.status = Returned]
            ELSE IF msg.sequence_num <= st.seq[pair]
            THEN [Classify(st, "Stale") EXCEPT !.status = Returned]
            ELSE IF msg.sequence_num # st.seq[pair] + 1
            THEN [Reset(Classify(st, "Gap")) EXCEPT !.status = Awaiting,
                                                    !.resync = Append(@, <<pair>>)]
            ELSE Dispatch([Classify(st, "Accept") EXCEPT !.seq[pair] = msg.sequence_num],
                          msg, event)
    ELSE Dispatch(Classify(st, "Accept"), msg, event)

RECURSIVE HandleEvents(_, _, _)
HandleEvents(st, msg, i) ==
    IF i > Len(msg.events) \/ st.status # Running THEN st
    ELSE LET r == HandleEvent([st EXCEPT !.class = NoKey], msg, msg.events[i])
         IN HandleEvents([r EXCEPT !.trace = Append(@, [class |-> r.class, seq |-> r.seq,
                                                          nout |-> Len(r.out)])],
                         msg, i + 1)

RunHandler(st, msg) ==
    IF msg.channel # NoKey
    THEN LET r == HandleEvents(st, msg, 1)
         IN IF r.status = Running THEN [r EXCEPT !.status = Returned] ELSE r
    ELSE [st EXCEPT !.status = Returned]

-----------------------------------------------------------------------------
(* _book_snapshot *)

Unparseable == [bad |-> TRUE]
TransportError == [raised |-> TRUE]
Parses(res) == "bids" \in DOMAIN res

\* Variant: an order replaces whatever the price level held.
AddOrderOverwrites(acc, side, order) ==
    LET price == order.price
        size == order.size
        order_id == <<side, size, price>>
    IN [book |-> [acc.book EXCEPT ![side] =
                     Put(@, price, OrderLevel(Put(EmptyDict, order_id, size)))],
        orders |-> Put(acc.orders, order_id, <<price, size>>)]

AddOrder(acc, side, order) ==
    LET price == order.price
        size == order.size
        order_id == <<side, size, price>>
        levels == acc.book[side]
    IN [book |-> [acc.book EXCEPT ![side] =
                     IF price \in DOMAIN levels
                     THEN Put(levels, price, OrderLevel(Put(levels[price].orders, order_id, size)))
                     ELSE Put(levels, price, OrderLevel(Put(EmptyDict, order_id, size)))],
        orders |-> Put(acc.orders, order_id, <<price, size>>)]

RECURSIVE AddOrders(_, _, _)
AddOrders(acc, side, orders) ==
    IF orders = <<>> THEN acc
    ELSE AddOrders(AddOrder(acc, side, Head(orders)), side, Tail(orders))

\* Variant: seeding a book also gives the symbol a sequence baseline.
SeedBookAssignsBaseline(st, res, pair) ==
    LET npair == exchange_symbol_to_std_symbol(pair)
        fresh == [book |-> OrderBook(EmptyDict, EmptyDict), orders |-> st.orders]
        bids == AddOrders(fresh, BID, res.bids)
        both == AddOrders(bids, ASK, res.asks)
    IN IF ~Parses(res)
       THEN [st EXCEPT !.status = Raised]
       ELSE [st EXCEPT !.book = Put(@, npair, both.book),
                       !.orders = both.orders,
                       !.seq = Put(IF st.seq = None THEN EmptyDict ELSE st.seq, npair, 1),
                       !.out = Append(@, BookNote(npair, both.book, res, None))]

\* Variant: the symbol's book is created before the response is parsed.
SeedBookBeforeParse(st, res, pair) ==
    LET npair == exchange_symbol_to_std_symbol(pair)
        fresh == [book |-> OrderBook(EmptyDict, EmptyDict), orders |-> st.orders]
        bids == AddOrders(fresh, BID, res.bids)
        both == AddOrders(bids, ASK, res.asks)
    IN IF ~Parses(res)
       THEN [st EXCEPT !.book = Put(@, npair, fresh.book), !.status = Raised]
       ELSE [st EXCEPT !.book = Put(@, npair, both.book),
                       !.orders = both.orders,
                       !.out = Append(@, BookNote(npair, both.book, res, None))]

SeedBook(st, res, pair) ==
    LET npair == exchange_symbol_to_std_symbol(pair)
        fresh == [book |-> OrderBook(EmptyDict, EmptyDict), orders |-> st.orders]
        bids == AddOrders(fresh, BID, res.bids)
        both == AddOrders(bids, ASK, res.asks)
    IN IF ~Parses(res)
       THEN [st EXCEPT !.status = Raised]
       ELSE [st EXCEPT !.book = Put(@, npair, both.book),
                       !.orders = both.orders,
                       !.out = Append(@, BookNote(npair, both.book, res, None))]

RECURSIVE SeedBooks(_, _, _, _)
SeedBooks(st, results, pairs, i) ==
    IF i > Len(pairs) \/ i > Len(results) \/ st.status # Running THEN st
    ELSE SeedBooks(SeedBook(st, results[i], pairs[i]), results, pairs, i + 1)

-----------------------------------------------------------------------------
(* subscribe *)

Subscription ==
    << [channel |-> "level2", symbols |-> <<"S1">>],
       [channel |-> "market_trades", symbols |-> <<"S1", "S2">>] >>

\* Variant: the heartbeat takes the symbols of all channels as they come.
DedupKeepsAll(s) == s

RECURSIVE Dedup(_)
Dedup(s) ==
    IF s = <<>> THEN <<>>
    ELSE LET front == Dedup(SubSeq(s, 1, Len(s) - 1))
             x == s[Len(s)]
         IN IF \E i \in 1 .. Len(front) : front[i] = x THEN front ELSE Append(front, x)

\* get_private_parameters: the HMAC is kept as the key and the message signed.
Sign(message) == [key_secret |-> "key_secret", message |-> message]

GetPrivateParameters(now, chan, product_ids, rest_api, endpoint) ==
    LET timestamp == now
        message == IF rest_api
                   THEN <<timestamp, "GET", <<"/api/v3/brokerage/", endpoint>> >>
                   ELSE <<timestamp, chan, product_ids>>
        signature == Sign(message)
    IN IF rest_api
       THEN [key |-> "key_id", timestamp |-> timestamp, signature |-> signature]
       ELSE [api_key |-> "key_id", timestamp |-> timestamp, signature |-> signature]

SubscribeMsg(chan, product_ids, now) ==
    LET private_params == GetPrivateParameters(now, chan, product_ids, FALSE, NoKey)
    IN [type |-> "subscribe", product_ids |-> product_ids, channel |-> chan,
        api_key |-> private_params.api_key, timestamp |-> private_params.timestamp,
        signature |-> private_params.signature]

RECURSIVE AllPairs(_)
AllPairs(n) == IF n = 0 THEN <<>> ELSE AllPairs(n - 1) \o subscription[n].symbols

RECURSIVE Sum(_, _)
Sum(f, n) == IF n = 0 THEN 0 ELSE Sum(f, n - 1) + f[n]

\* elapsed[i] is the time the i-th conn.write takes; the i-th message is
\* signed when the writes before it are done.
SubscribeWrites(now, elapsed) ==
    [i \in 1 .. Len(subscription) |->
        SubscribeMsg(subscription[i].channel, subscription[i].symbols,
                     now + Sum(elapsed, i - 1))]
    \o << SubscribeMsg("heartbeat", Dedup(AllPairs(Len(subscription))),
                       now + Sum(elapsed, Len(subscription))) >>

-----------------------------------------------------------------------------
(* Inputs *)

Entries == [side : WireSides, price_level : Prices, new_quantity : Quantities]
Batches == SeqsUpTo(Entries, MaxLen)

L2Event(type, product_id, updates) ==
    [type |-> type, product_id |-> product_id, updates |-> updates, trades |-> 0]
L2Events(B) == {L2Event(t, p, b) : t \in {"snapshot", "update"}, p \in Symbols, b \in B}

\* Events that carry no product_id: trades, acknowledgements.
PlainEvents ==
    { [type |-> t, product_id |-> NoKey, updates |-> <<>>, trades |-> 1] :
        t \in {"snapshot", "update"} }

Message(chan, n, events) == [channel |-> chan, sequence_num |-> n, events |-> events]

OtherMsgs ==
    {Message(c, 1, <<e>>) : c \in {"market_trades", "subscriptions", "status"},
                            e \in PlainEvents}
    \cup {Message("l2_data", 1, <<e>>) : e \in PlainEvents}
    \cup {Message(NoKey, NoSeq, <<>>)}

Msgs == {Message("l2_data", 1, <<e>>) : e \in L2Events(Batches)} \cup OtherMsgs

RestOrders == [price : Prices, size : Quantities]
Responses ==
    {[bids |-> b, asks |-> a] : b \in SeqsUpTo(RestOrders, MaxOrders),
                                a \in SeqsUpTo(RestOrders, MaxOrders)}
RestResponses ==
    {r \in Responses : Len(r.bids) + Len(r.asks) <= MaxOrders} \cup {Unparseable}

PairLists == {<<"S1">>, <<"S2">>}

-----------------------------------------------------------------------------
(* Operations *)

Idle == [status |-> Returned, trace |-> <<>>, resync |-> <<>>, fetched |-> <<>>,
         responses |-> <<>>]

\* No call is being followed step by step and nothing has been read.
Unapplied == [prev |-> [s \in Symbols |-> 0], last |-> [s \in Symbols |-> 0]]

Unobserved ==
    /\ task = None
    /\ seen = None
    /\ clock = 0
    /\ requests = <<>>
    /\ adjacent = None
    /\ stale = [cur |-> FALSE, adj |-> FALSE]
    /\ revived = FALSE
    /\ applied = Unapplied

Init ==
    /\ l2_book = EmptyDict
    /\ order_map = EmptyDict
    /\ order_type_map = EmptyDict
    /\ seq_no = None
    /\ pending = None
    /\ sent = <<>>
    /\ emitted = <<>>
    /\ call = [op |-> "__init__"]
    /\ pre = [book |-> EmptyDict, orders |-> EmptyDict, seq |-> None]
    /\ outcome = Idle
    /\ run = None
    /\ steps = 0
    /\ Unobserved
    /\ subscription = Subscription

MessageHandler(msg) ==
    /\ pending = None
    /\ \E r \in {RunHandler(Enter, msg)} :
          /\ l2_book' = r.book
          /\ order_map' = r.orders
          /\ order_type_map' = r.types
          /\ seq_no' = r.seq
          /\ emitted' = r.out
          /\ outcome' = [status |-> r.status, trace |-> r.trace, resync |-> r.resync,
                         fetched |-> <<>>, responses |-> <<>>]
          /\ pending' = IF r.status = Awaiting
                        THEN [pairs |-> r.resync[1], results |-> <<>>, headers |-> None]
                        ELSE None
    /\ call' = [op |-> "message_handler", msg |-> msg]
    /\ pre' = Snapshot
    /\ UNCHANGED sent

BookSnapshot(pairs) ==
    /\ pending = None
    /\ pending' = [pairs |-> pairs, results |-> <<>>, headers |-> None]
    /\ call' = [op |-> "_book_snapshot", pairs |-> pairs]
    /\ pre' = Snapshot
    /\ emitted' = <<>>
    /\ outcome' = [Idle EXCEPT !.status = Awaiting]
    /\ UNCHANGED <<l2_book, order_map, order_type_map, seq_no, sent>>

Reading == pending # None /\ Len(pending.results) < Len(pending.pairs)
NextPair == pending.pairs[Len(pending.results) + 1]

\* Line 175: the headers are built once, when the warm-up wait is over.
Headers ==
    IF pending.headers = None
    THEN GetPrivateParameters(clock, NoKey, <<>>, TRUE, "product_book")
    ELSE pending.headers

HttpRead(res) ==
    /\ Reading
    /\ pending' = [pending EXCEPT !.results = Append(@, res), !.headers = Headers]
    /\ outcome' = [outcome EXCEPT !.fetched = Append(@, NextPair),
                                  !.responses = Append(@, res)]
    /\ UNCHANGED <<l2_book, order_map, order_type_map, seq_no, sent, emitted, call,
                   pre>>

HttpReadFails ==
    /\ Reading
    /\ pending' = None
    /\ outcome' = [outcome EXCEPT !.fetched = Append(@, NextPair),
                                  !.responses = Append(@, TransportError),
                                  !.status = Raised]
    /\ UNCHANGED <<l2_book, order_map, order_type_map, seq_no, sent, emitted, call,
                   pre>>

BookSnapshotApply ==
    /\ pending # None
    /\ ~Reading
    /\ \E r \in {SeedBooks([Enter EXCEPT !.out = emitted], pending.results,
                            pending.pairs, 1)} :
          /\ l2_book' = r.book
          /\ order_map' = r.orders
          /\ seq_no' = r.seq
          /\ emitted' = r.out
          /\ outcome' = [outcome EXCEPT
                            !.status = IF r.status = Raised THEN Raised ELSE Returned]
    /\ pending' = None
    /\ UNCHANGED <<order_type_map, sent, call, pre>>

Instant == [i \in 1 .. Len(subscription) + 1 |-> 0]

Subscribe(elapsed) ==
    /\ pending = None
    /\ LET r == Reset(Enter)
       IN /\ l2_book' = r.book
          /\ order_map' = r.orders
          /\ order_type_map' = r.types
          /\ seq_no' = r.seq
    /\ sent' = sent \o SubscribeWrites(clock, elapsed)
    /\ emitted' = <<>>
    /\ call' = [op |-> "subscribe", elapsed |-> elapsed]
    /\ pre' = Snapshot
    /\ outcome' = Idle
    /\ pending' = None

-----------------------------------------------------------------------------
(* The feed as constructed: seq_no stays None *)

\* An operation is started while fewer than n have been.
Started(n) == steps < n /\ steps' = steps + 1
Resumed == UNCHANGED steps
Untracked == UNCHANGED <<run, stepVars, signVars, raceVars, applied>>

Next ==
    \/ \E msg \in Msgs : Started(MaxSteps) /\ Untracked /\ MessageHandler(msg)
    \/ \E pairs \in PairLists : Started(MaxSteps) /\ Untracked /\ BookSnapshot(pairs)
    \/ Started(MaxSteps) /\ Untracked /\ Subscribe(Instant)
    \/ \E res \in RestResponses : Resumed /\ Untracked /\ HttpRead(res)
    \/ Resumed /\ Untracked /\ HttpReadFails
    \/ Resumed /\ Untracked /\ BookSnapshotApply

Spec == Init /\ [][Next]_vars

-----------------------------------------------------------------------------
(* Update batches applied one after the other *)

ShortBatches == SeqsUpTo(Entries, 1)
RunMsgs == {Message("l2_data", 1, <<e>>) : e \in L2Events(ShortBatches)}

\* A message of one update event that _pair_level2_update has just applied.
AppliedUpdate(msg) ==
    /\ msg.channel = "l2_data"
    /\ Len(msg.events) = 1
    /\ msg.events[1].type = "update"
    /\ outcome'.status = Returned
    /\ Len(emitted') = 1

\* run: the symbol, the books the first batch found, and the batches so far.
Tracked(msg) ==
    run' = IF AppliedUpdate(msg)
           THEN LET pair == exchange_symbol_to_std_symbol(msg.events[1].product_id)
                IN IF run # None /\ run.pair = pair
                   THEN [run EXCEPT !.batch = @ \o msg.events[1].updates,
                                    !.count = @ + 1]
                   ELSE [pair |-> pair, base |-> l2_book,
                         batch |-> msg.events[1].updates, count |-> 1]
           ELSE None

NextBatch ==
    \E msg \in RunMsgs : /\ Started(MaxRun)
                           /\ MessageHandler(msg)
                           /\ Tracked(msg)
                           /\ UNCHANGED <<stepVars, signVars, raceVars, applied>>

SpecRun == Init /\ [][NextBatch]_vars

-----------------------------------------------------------------------------
(* The sequence check of message_handler, lines 205-219.  The check reads *)
(* self.seq_no, which no line of the class assigns a dict to; it is       *)
(* exercised here from a feed whose books are seeded and whose seq_no     *)
(* holds baselines, the state the assignment commented out at line 187    *)
(* would leave.                                                           *)

SeedResponse == [bids |-> <<[price |-> 1, size |-> 1]>>,
                 asks |-> <<[price |-> 2, size |-> 2]>>]
SeedEntry == [side |-> "bid", price_level |-> 1, new_quantity |-> 1]
SeqEntry == [side |-> "bid", price_level |-> 1, new_quantity |-> 2]

Seeded ==
    LET empty == [book |-> EmptyDict, orders |-> EmptyDict, types |-> EmptyDict,
                  seq |-> None, out |-> <<>>, class |-> NoKey, trace |-> <<>>,
                  status |-> Running, resync |-> <<>>]
    IN PairLevel2Snapshot(SeedBook(empty, SeedResponse, "S1"),
                          L2Event("snapshot", "S2", <<SeedEntry>>))

Baselines ==
    {None} \cup UNION {[D -> 0 .. MaxSeq - 2] : D \in SUBSET Symbols}

SeqNums == {NoSeq} \cup (1 .. MaxSeq)
SeqEvents == L2Events({<<SeqEntry>>})
EventLists == UNION {[1 .. k -> SeqEvents] : k \in 1 .. MaxEvents}
SeqMsgs ==
    {Message("l2_data", n, es) : n \in SeqNums, es \in EventLists}
    \cup {Message("market_trades", n, <<e>>) : n \in SeqNums, e \in PlainEvents}

ResyncResponse == [bids |-> <<[price |-> 2, size |-> 1]>>, asks |-> <<>>]
SeqResponses == {ResyncResponse, Unparseable}

InitSeq ==
    /\ l2_book = Seeded.book
    /\ order_map = Seeded.orders
    /\ order_type_map = EmptyDict
    /\ seq_no \in Baselines
    /\ pending = None
    /\ sent = <<>>
    /\ emitted = <<>>
    /\ call = [op |-> "__init__"]
    /\ pre = [book |-> EmptyDict, orders |-> EmptyDict, seq |-> None]
    /\ outcome = Idle
    /\ run = None
    /\ steps = 0
    /\ Unobserved
    /\ subscription = Subscription

NextSeq ==
    \/ \E msg \in SeqMsgs : Resumed /\ Untracked /\ MessageHandler(msg)
    \/ \E res \in SeqResponses : Resumed /\ Untracked /\ HttpRead(res)
    \/ Resumed /\ Untracked /\ HttpReadFails
    \/ Resumed /\ Untracked /\ BookSnapshotApply

SpecSeq == InitSeq /\ [][NextSeq]_vars

-----------------------------------------------------------------------------
(* _pair_level2_update followed entry by entry.  The loop of lines 150-161 *)
(* holds no await: the task running it is suspended only in the callback   *)
(* of line 163, and another task of the event loop runs only while the     *)
(* handler's task is suspended or idle.                                    *)

UpdateEvents == {e \in L2Events(Batches) : e.type = "update"}
SnapshotMsgs ==
    {Message("l2_data", 1, <<e>>) : e \in {x \in L2Events(ShortBatches) : x.type = "snapshot"}}

\* Variant: the task is suspended inside the loop as well.
SuspendedInLoop(t) == IF t = None THEN TRUE ELSE t.pc \in {"callback", "loop"}

Suspended(t) == IF t = None THEN TRUE ELSE t.pc = "callback"
TaskPair == exchange_symbol_to_std_symbol(task.event.product_id)

\* Lines 148-149.
UpdateBegin(event) ==
    /\ task = None
    /\ pending = None
    /\ task' = [pc |-> "loop", event |-> event, i |-> 1,
                delta |-> [bid |-> <<>>, ask |-> <<>>]]
    /\ call' = [op |-> "_pair_level2_update", msg |-> event]
    /\ pre' = Snapshot
    /\ emitted' = <<>>
    /\ outcome' = [Idle EXCEPT !.status = Running]
    /\ UNCHANGED <<l2_book, order_map, order_type_map, seq_no, pending, sent, seen>>

\* One turn of the loop, lines 150-161.
UpdateEntry ==
    /\ task # None
    /\ task.pc = "loop"
    /\ task.i <= Len(task.event.updates)
    /\ IF TaskPair \in DOMAIN l2_book
       THEN \E r \in {ApplyUpdate([book |-> l2_book[TaskPair], delta |-> task.delta],
                                  task.event.updates[task.i])} :
               /\ l2_book' = Put(l2_book, TaskPair, r.book)
               /\ task' = [task EXCEPT !.i = @ + 1, !.delta = r.delta]
               /\ UNCHANGED outcome
       ELSE /\ task' = None
            /\ outcome' = [outcome EXCEPT !.status = Raised]
            /\ UNCHANGED l2_book
    /\ UNCHANGED <<order_map, order_type_map, seq_no, pending, sent, emitted, call, pre,
                   seen>>

\* Line 163: the callback is awaited with the book and the delta.
UpdateCallback ==
    /\ task # None
    /\ task.pc = "loop"
    /\ task.i > Len(task.event.updates)
    /\ IF TaskPair \in DOMAIN l2_book
       THEN /\ emitted' = Append(emitted, BookNote(TaskPair, l2_book[TaskPair], task.event,
                                                   task.delta))
            /\ task' = [task EXCEPT !.pc = "callback"]
            /\ UNCHANGED outcome
       ELSE /\ task' = None
            /\ outcome' = [outcome EXCEPT !.status = Raised]
            /\ UNCHANGED emitted
    /\ UNCHANGED <<l2_book, order_map, order_type_map, seq_no, pending, sent, call, pre,
                   seen>>

UpdateReturn ==
    /\ task # None
    /\ task.pc = "callback"
    /\ task' = None
    /\ outcome' = [outcome EXCEPT !.status = Returned]
    /\ UNCHANGED <<l2_book, order_map, order_type_map, seq_no, pending, sent, emitted,
                   call, pre, seen>>

\* Another task reads the books: of the batch in hand, seen.applied entries
\* of seen.of are applied to what it reads.
Observe ==
    /\ Suspended(task)
    /\ seen' = [book |-> l2_book,
                applied |-> IF task = None THEN 0 ELSE task.i - 1,
                of |-> IF task = None THEN 0 ELSE Len(task.event.updates)]
    /\ UNCHANGED <<l2_book, order_map, order_type_map, seq_no, pending, sent, emitted,
                   call, pre, outcome, task>>

NextEntry ==
    \/ \E msg \in SnapshotMsgs : /\ Started(MaxSteps)
                                  /\ task = None
                                  /\ MessageHandler(msg)
                                  /\ Untracked
    \/ \E event \in UpdateEvents : Started(MaxSteps) /\ UpdateBegin(event) /\ UNCHANGED <<run, signVars, raceVars, applied>>
    \/ Resumed /\ UpdateEntry /\ UNCHANGED <<run, signVars, raceVars, applied>>
    \/ Resumed /\ UpdateCallback /\ UNCHANGED <<run, signVars, raceVars, applied>>
    \/ Resumed /\ UpdateReturn /\ UNCHANGED <<run, signVars, raceVars, applied>>
    \/ Resumed /\ Observe /\ UNCHANGED <<run, signVars, raceVars, applied>>

SpecEntry == Init /\ [][NextEntry]_vars

-----------------------------------------------------------------------------
(* Signed requests: subscribe and the REST reads of _book_snapshot, with   *)
(* the wall clock advancing while a write, a read or a sleep is awaited.   *)

SymbolLists == SeqsUpTo(Symbols, 2)
Channels == {"level2", "market_trades"}
Subscriptions ==
    {<<>>}
    \cup {<<[channel |-> c, symbols |-> l]>> : c \in Channels, l \in SymbolLists}
    \cup {x \in {<<[channel |-> c, symbols |-> l], [channel |-> d, symbols |-> m]>> :
                     c \in Channels, d \in Channels, l \in SymbolLists, m \in SymbolLists} :
               x[1].channel # x[2].channel}

UrlLists == {<<"S1">>, <<"S2">>, <<"S1", "S2">>}
Elapse == {0, 1}

InitSigned ==
    /\ l2_book = EmptyDict
    /\ order_map = EmptyDict
    /\ order_type_map = EmptyDict
    /\ seq_no = None
    /\ pending = None
    /\ sent = <<>>
    /\ emitted = <<>>
    /\ call = [op |-> "__init__"]
    /\ pre = [book |-> EmptyDict, orders |-> EmptyDict, seq |-> None]
    /\ outcome = Idle
    /\ run = None
    /\ steps = 0
    /\ Unobserved
    /\ subscription \in Subscriptions

\* The requests a step issues, with the clock at their issue.
Request(kind, at, params) ==
    [kind |-> kind, at |-> at, timestamp |-> params.timestamp,
     signature |-> params.signature]

SubscribeTimed(elapsed) ==
    /\ clock + Sum(elapsed, Len(elapsed)) <= MaxClock
    /\ Subscribe(elapsed)
    /\ clock' = clock + Sum(elapsed, Len(elapsed))
    /\ requests' = requests \o
           [i \in 1 .. Len(elapsed) |->
               Request("subscribe", clock + Sum(elapsed, i - 1),
                       SubscribeWrites(clock, elapsed)[i])]
    /\ UNCHANGED <<run, stepVars, subscription, raceVars, applied>>

HttpReadTimed(res) ==
    /\ HttpRead(res)
    /\ requests' = Append(requests, Request("rest", clock, Headers))
    /\ UNCHANGED <<run, stepVars, subscription, clock, raceVars, applied>>

HttpReadFailsTimed ==
    /\ HttpReadFails
    /\ requests' = Append(requests, Request("rest", clock, Headers))
    /\ UNCHANGED <<run, stepVars, subscription, clock, raceVars, applied>>

\* Time passes while the task is suspended or idle.
Tick ==
    /\ clock < MaxClock
    /\ clock' = clock + 1
    /\ UNCHANGED <<l2_book, order_map, order_type_map, seq_no, pending, sent, emitted,
                   call, pre, outcome, run, steps, stepVars, subscription, requests, raceVars, applied>>

NextSigned ==
    \/ \E elapsed \in [1 .. Len(subscription) + 1 -> Elapse] :
           Started(MaxSteps) /\ SubscribeTimed(elapsed)
    \/ \E pairs \in UrlLists : Started(MaxSteps) /\ Untracked /\ BookSnapshot(pairs)
    \/ \E res \in SeqResponses : Resumed /\ HttpReadTimed(res)
    \/ Resumed /\ HttpReadFailsTimed
    \/ Resumed /\ Untracked /\ BookSnapshotApply
    \/ Tick

SpecSigned == InitSigned /\ [][NextSigned]_vars

-----------------------------------------------------------------------------
(* Two tasks of the event loop.  Whatever starts message_handler and       *)
(* _book_snapshot lies outside this class; following section 5 of the      *)
(* specification, a task may run them while another task is suspended in   *)
(* the sleeps or the read of _book_snapshot.  pending is the call of the    *)
(* task that runs, adjacent the call of the other one.                     *)

RaceMsgs ==
    {Message("l2_data", n, <<e>>) : n \in 1 .. MaxSeq, e \in SeqEvents}

\* The other task is scheduled.
Switch ==
    /\ pending # adjacent
    /\ pending' = adjacent
    /\ adjacent' = pending
    /\ stale' = [cur |-> stale.adj, adj |-> stale.cur]
    /\ UNCHANGED <<l2_book, order_map, order_type_map, seq_no, sent, emitted, call, pre,
                   outcome, run, steps, stepVars, signVars, revived, applied>>

\* The symbols whose response a suspended call already holds.
Fetched(c) == IF c = None THEN {} ELSE {c.pairs[i] : i \in 1 .. Len(c.results)}

\* The message just handled reset the state, or replaced the book of a
\* symbol of S by a snapshot event.
Overtakes(msg, S) ==
    \E i \in 1 .. Len(outcome'.trace) :
        \/ outcome'.trace[i].class = "Gap" /\ S # {}
        \/ /\ msg.events[i].type = "snapshot"
           /\ msg.events[i].product_id \in S
           /\ outcome'.trace[i].nout > (IF i = 1 THEN 0 ELSE outcome'.trace[i - 1].nout)

MessageHandlerRaced(msg) ==
    /\ MessageHandler(msg)
    /\ stale' = [cur |-> FALSE, adj |-> stale.adj \/ Overtakes(msg, Fetched(adjacent))]
    /\ UNCHANGED <<adjacent, revived>>

BookSnapshotRaced(pairs) ==
    /\ BookSnapshot(pairs)
    /\ stale' = [stale EXCEPT !.cur = FALSE]
    /\ UNCHANGED <<adjacent, revived>>

BookSnapshotApplyRaced ==
    /\ BookSnapshotApply
    /\ revived' = (revived \/ (stale.cur /\ Len(emitted') > Len(emitted)))
    /\ stale' = [stale EXCEPT !.cur = FALSE]
    /\ UNCHANGED adjacent

NextRace ==
    \/ \E msg \in RaceMsgs :
           Started(MaxRun) /\ MessageHandlerRaced(msg) /\ UNCHANGED <<run, stepVars, signVars, applied>>
    \/ \E pairs \in PairLists :
           Started(MaxRun) /\ BookSnapshotRaced(pairs) /\ UNCHANGED <<run, stepVars, signVars, applied>>
    \/ \E res \in SeqResponses : Resumed /\ Untracked /\ HttpRead(res)
    \/ Resumed /\ Untracked /\ HttpReadFails
    \/ Resumed /\ BookSnapshotApplyRaced /\ UNCHANGED <<run, stepVars, signVars, applied>>
    \/ Resumed /\ Switch

SpecRace == InitSeq /\ [][NextRace]_vars

-----------------------------------------------------------------------------
(* The feed as constructed: every operation, from __init__, with messages *)
(* whose sequence numbers come in any order.                              *)

LiveEntries == {[side |-> "bid", price_level |-> 1, new_quantity |-> q] : q \in 1 .. MaxQty}
LiveEvents == L2Events({<<e>> : e \in LiveEntries})
LiveMsgs ==
    {Message("l2_data", n, es) :
        n \in 1 .. MaxSeq, es \in UNION {[1 .. k -> LiveEvents] : k \in 1 .. MaxEvents}}

\* The update events of msg whose callback the handler has just issued.
UpdatedBy(msg, s) ==
    \E i \in 1 .. Len(outcome'.trace) :
        /\ msg.events[i].type = "update"
        /\ exchange_symbol_to_std_symbol(msg.events[i].product_id) = s
        /\ outcome'.trace[i].nout > (IF i = 1 THEN 0 ELSE outcome'.trace[i - 1].nout)

MessageHandlerLive(msg) ==
    /\ MessageHandler(msg)
    /\ applied' = [prev |-> applied.last,
                   last |-> [s \in Symbols |-> IF UpdatedBy(msg, s) THEN msg.sequence_num
                                                ELSE applied.last[s]]]

SubscribeLive ==
    /\ Subscribe(Instant)
    /\ applied' = Unapplied

NextLive ==
    \/ \E msg \in LiveMsgs :
           Started(MaxRun) /\ MessageHandlerLive(msg) /\ UNCHANGED <<run, stepVars, signVars, raceVars>>
    \/ \E pairs \in PairLists : Started(MaxRun) /\ Untracked /\ BookSnapshot(pairs)
    \/ Started(MaxRun) /\ SubscribeLive /\ UNCHANGED <<run, stepVars, signVars, raceVars>>
    \/ \E res \in SeqResponses : Resumed /\ Untracked /\ HttpRead(res)
    \/ Resumed /\ Untracked /\ HttpReadFails
    \/ Resumed /\ Untracked /\ BookSnapshotApply

SpecLive == Init /\ [][NextLive]_vars

-----------------------------------------------------------------------------
(* What the last operation did, read off call, pre, outcome and emitted *)

Handled == call.op = "message_handler"
Trace == outcome.trace
PairAt(i) == exchange_symbol_to_std_symbol(call.msg.events[i].product_id)
BookEventAt(i) == call.msg.channel = "l2_data" /\ call.msg.events[i].product_id # NoKey
SeqBefore(i) == IF i = 1 THEN pre.seq ELSE Trace[i - 1].seq
NoutBefore(i) == IF i = 1 THEN 0 ELSE Trace[i - 1].nout
EventEmitted(i) == Trace[i].nout > NoutBefore(i)
HasBaseline(sq, pair) == sq # None /\ pair \in DOMAIN sq /\ sq[pair] # 0
FromEvent(n) == n.kind = L2_BOOK /\ "type" \in DOMAIN n.raw
FromRest(n) == n.kind = L2_BOOK /\ "type" \notin DOMAIN n.raw
SameBook(a, b, pair) ==
    /\ pair \in DOMAIN a <=> pair \in DOMAIN b
    /\ pair \in DOMAIN a => a[pair] = b[pair]
LastGapPair == PairAt(Len(Trace))
GapHandled == Handled /\ Trace # <<>> /\ Trace[Len(Trace)].class = "Gap"

-----------------------------------------------------------------------------
(* Sequence check *)

\* C1: for a symbol with a baseline, an event of a message that carries a
\* sequence_num reaches the book (its callback is issued) only if that number
\* is the symbol's last accepted number + 1, and the symbol's last accepted
\* number is that number once the event is handled.
C1_AcceptedInOrder ==
    Handled =>
        \A i \in 1 .. Len(Trace) :
            ( /\ BookEventAt(i)
              /\ call.msg.sequence_num # NoSeq
              /\ HasBaseline(SeqBefore(i), PairAt(i))
              /\ EventEmitted(i) )
            => /\ call.msg.sequence_num = SeqBefore(i)[PairAt(i)] + 1
               /\ Trace[i].class = "Accept"
               /\ HasBaseline(Trace[i].seq, PairAt(i))
               /\ Trace[i].seq[PairAt(i)] = call.msg.sequence_num

C1_Witness ==
    /\ Handled
    /\ Len(Trace) = 1
    /\ BookEventAt(1)
    /\ call.msg.events[1].type = "update"
    /\ HasBaseline(pre.seq, PairAt(1))
    /\ call.msg.sequence_num = pre.seq[PairAt(1)] + 1
    /\ EventEmitted(1)
    /\ seq_no[PairAt(1)] = call.msg.sequence_num
    /\ l2_book[PairAt(1)] # pre.book[PairAt(1)]

\* C2: when the handler takes the Stale branch at an event whose symbol S
\* already had sequence_num <= its last accepted number when the message
\* arrived, S's book, the order records and S's last accepted number are
\* what they were before the message, and no book callback was issued for S.
C2_StaleNoMutation ==
    Handled =>
        \A i \in 1 .. Len(Trace) :
            ( /\ Trace[i].class = "Stale"
              /\ HasBaseline(pre.seq, PairAt(i))
              /\ call.msg.sequence_num <= pre.seq[PairAt(i)] )
            => /\ SameBook(pre.book, l2_book, PairAt(i))
               /\ order_map = pre.orders
               /\ HasBaseline(seq_no, PairAt(i))
               /\ seq_no[PairAt(i)] = pre.seq[PairAt(i)]
               /\ \A k \in 1 .. Len(emitted) :
                      emitted[k].kind = L2_BOOK => emitted[k].pair # PairAt(i)
               /\ outcome.status = Returned
               /\ pending = None

C2_Witness ==
    /\ Handled
    /\ Len(Trace) = 2
    /\ Trace[1].class = "Accept"
    /\ EventEmitted(1)
    /\ Trace[2].class = "Stale"
    /\ HasBaseline(pre.seq, PairAt(2))
    /\ call.msg.sequence_num <= pre.seq[PairAt(2)]
    /\ PairAt(2) \in DOMAIN l2_book

\* C3: a Gap schedules exactly one _book_snapshot, for the affected symbol
\* alone, and at most one fetch is issued for it; until the fetched result
\* is applied the books, the order records and the sequence state are empty;
\* what is applied holds nothing of the previous book or order records; and
\* no event of the triggering message issued a callback for the symbol.
C3_GapResync ==
    GapHandled =>
        /\ outcome.resync = << <<LastGapPair>> >>
        /\ outcome.fetched \in {<<>>, <<LastGapPair>>}
        /\ seq_no = None
        /\ \A k \in 1 .. Len(emitted) :
               (emitted[k].kind = L2_BOOK /\ emitted[k].pair = LastGapPair)
                   => FromRest(emitted[k])
        /\ pending # None =>
               /\ pending.pairs = <<LastGapPair>>
               /\ outcome.status = Awaiting
               /\ l2_book = EmptyDict
               /\ order_map = EmptyDict
        /\ outcome.status = Raised => l2_book = EmptyDict /\ pending = None
        /\ outcome.status = Returned =>
               /\ outcome.fetched = <<LastGapPair>>
               /\ pending = None
               /\ DOMAIN l2_book = {LastGapPair}
               /\ FromRest(emitted[Len(emitted)])
               /\ LET res == emitted[Len(emitted)].raw
                      from(side, list) == {<<side, list[j].size, list[j].price>> :
                                              j \in 1 .. Len(list)}
                  IN /\ DOMAIN order_map = from(BID, res.bids) \cup from(ASK, res.asks)
                     /\ DOMAIN l2_book[LastGapPair].bid =
                            {res.bids[j].price : j \in 1 .. Len(res.bids)}
                     /\ DOMAIN l2_book[LastGapPair].ask =
                            {res.asks[j].price : j \in 1 .. Len(res.asks)}
        /\ outcome.status \in {Awaiting, Raised, Returned}

C3_Witness ==
    /\ GapHandled
    /\ HasBaseline(pre.seq, LastGapPair)
    /\ call.msg.sequence_num > pre.seq[LastGapPair] + 1
    /\ LastGapPair \in DOMAIN pre.book
    /\ pre.orders # EmptyDict
    /\ outcome.status = Returned
    /\ LastGapPair \in DOMAIN l2_book
    /\ l2_book[LastGapPair] # pre.book[LastGapPair]

\* C4: a Gap on symbol S, met at the first event of a message, leaves every
\* other symbol's book and last accepted sequence number as they were.
C4_GapConfinedToSymbol ==
    (GapHandled /\ Len(Trace) = 1) =>
        \A t \in Symbols \ {LastGapPair} :
            /\ t \in DOMAIN pre.book => (t \in DOMAIN l2_book /\ l2_book[t] = pre.book[t])
            /\ HasBaseline(pre.seq, t) =>
                   (HasBaseline(seq_no, t) /\ seq_no[t] = pre.seq[t])

\* C5 as stated: an event for a symbol without a baseline is classified
\* Accept, whatever the message's sequence_num and whatever the other
\* symbols' baselines.
C5_NoBaselineAccepts ==
    Handled =>
        \A i \in 1 .. Len(Trace) :
            (BookEventAt(i) /\ ~HasBaseline(SeqBefore(i), PairAt(i)))
                => Trace[i].class = "Accept"

\* C5 amended: an event for a symbol without a baseline (no entry, or a
\* stored 0) is classified Accept and dispatched exactly when seq_no holds no
\* entry at all or the message carries no sequence_num; otherwise the handler
\* returns at that event and the event changes nothing.
C5_NoBaselineAcceptsUnlessTracking ==
    Handled =>
        \A i \in 1 .. Len(Trace) :
            (BookEventAt(i) /\ ~HasBaseline(SeqBefore(i), PairAt(i)))
                => IF Truthy(SeqBefore(i)) /\ call.msg.sequence_num # NoSeq
                   THEN /\ Trace[i].class = "Dropped"
                        /\ i = Len(Trace)
                        /\ outcome.status = Returned
                        /\ ~EventEmitted(i)
                        /\ Trace[i].seq = SeqBefore(i)
                        /\ seq_no = SeqBefore(i)
                        /\ i = 1 => (l2_book = pre.book /\ order_map = pre.orders)
                   ELSE /\ Trace[i].class = "Accept"
                        /\ Trace[i].seq = SeqBefore(i)
                        /\ \/ EventEmitted(i)
                           \/ /\ i = Len(Trace)
                              /\ outcome.status = Raised
                              /\ call.msg.events[i].type = "update"

C5_Witness ==
    /\ Handled
    /\ Len(Trace) = 1
    /\ BookEventAt(1)
    /\ call.msg.sequence_num # NoSeq
    /\ ~Truthy(pre.seq)
    /\ Trace[1].class = "Accept"
    /\ EventEmitted(1)
    /\ l2_book[PairAt(1)] # pre.book[PairAt(1)]

-----------------------------------------------------------------------------
(* Book maintenance *)

Sides == {BID, ASK}
SideOf(update) == IF update.side = "bid" THEN BID ELSE ASK
Max(S) == CHOOSE x \in S : \A y \in S : y <= x

OneBookEvent(type) ==
    /\ Handled
    /\ call.msg.channel = "l2_data"
    /\ Len(call.msg.events) = 1
    /\ call.msg.events[1].type = type
    /\ call.msg.events[1].product_id # NoKey
    /\ outcome.status = Returned
    /\ Len(emitted) = 1
UpdateApplied == OneBookEvent("update")
SnapshotApplied == OneBookEvent("snapshot")
Batch == call.msg.events[1].updates
Named(side, p) ==
    {i \in 1 .. Len(Batch) : SideOf(Batch[i]) = side /\ Batch[i].price_level = p}
SameLevel(a, b, p) ==
    /\ p \in DOMAIN a <=> p \in DOMAIN b
    /\ p \in DOMAIN a => a[p] = b[p]

\* C6: no price of any side of any book is mapped to quantity 0, whether the
\* level is a quantity or a dict of orders.
C6_NoZeroQuantity ==
    \A pair \in DOMAIN l2_book : \A side \in Sides :
        \A p \in DOMAIN l2_book[pair][side] :
            LET v == l2_book[pair][side][p]
            IN IF IsQty(v) THEN v.qty # 0
               ELSE \A id \in DOMAIN v.orders : v.orders[id] # 0

\* C7: after an update batch, a (side, price) whose last entry in the batch
\* has quantity 0 is absent, one whose last entry has quantity q > 0 is
\* present with exactly q, and one the batch does not name is as before.
C7_UpdatePostcondition ==
    UpdateApplied =>
        \A side \in Sides : \A p \in Prices :
            LET now == l2_book[PairAt(1)][side]
                was == pre.book[PairAt(1)][side]
            IN IF Named(side, p) = {}
               THEN SameLevel(was, now, p)
               ELSE LET q == Batch[Max(Named(side, p))].new_quantity
                    IN IF q = 0 THEN p \notin DOMAIN now
                       ELSE p \in DOMAIN now /\ now[p] = Level(q)

C7_Witness ==
    /\ UpdateApplied
    /\ Len(Batch) = 2
    /\ Batch[1].side = "bid" /\ Batch[2].side = "bid"
    /\ Batch[1].price_level = Batch[2].price_level
    /\ Batch[1].new_quantity > 0 /\ Batch[2].new_quantity = 0
    /\ Batch[1].price_level \in DOMAIN pre.book[PairAt(1)].bid
    /\ Batch[1].price_level \notin DOMAIN l2_book[PairAt(1)].bid
    /\ l2_book[PairAt(1)].ask # EmptyDict

\* Whether the level of entry i existed when entry i was applied, and the
\* Delta C8 describes.
ExistedAt(i) ==
    LET earlier == {j \in Named(SideOf(Batch[i]), Batch[i].price_level) : j < i}
    IN IF earlier = {}
       THEN Batch[i].price_level \in DOMAIN pre.book[PairAt(1)][SideOf(Batch[i])]
       ELSE Batch[Max(earlier)].new_quantity # 0

RECURSIVE DeltaUpTo(_, _)
DeltaUpTo(side, n) ==
    IF n = 0 THEN <<>>
    ELSE IF SideOf(Batch[n]) = side /\ (Batch[n].new_quantity # 0 \/ ExistedAt(n))
         THEN Append(DeltaUpTo(side, n - 1), <<Batch[n].price_level, Batch[n].new_quantity>>)
         ELSE DeltaUpTo(side, n - 1)

\* C8: the Delta handed to the callback lists, per side and in batch order,
\* (price, 0) for a zero entry whose level existed when it was applied,
\* nothing for a zero entry whose level did not, (price, qty) for qty > 0.
C8_DeltaContents ==
    UpdateApplied =>
        emitted[1].delta = [bid |-> DeltaUpTo(BID, Len(Batch)),
                            ask |-> DeltaUpTo(ASK, Len(Batch))]

C8_Witness ==
    /\ UpdateApplied
    /\ Len(Batch) = 2
    /\ Batch[1].side = "bid" /\ Batch[2].side = "ask"
    /\ Batch[1].new_quantity = 0 /\ Batch[2].new_quantity = 0
    /\ Batch[1].price_level \in DOMAIN pre.book[PairAt(1)].bid
    /\ Batch[2].price_level \notin DOMAIN pre.book[PairAt(1)].ask
    /\ emitted[1].delta = [bid |-> << <<Batch[1].price_level, 0>> >>, ask |-> <<>>]

\* C9: the book after update batches applied one after the other to a
\* symbol equals the book _pair_level2_update gives for their concatenation
\* applied to the book the first of them found.
C9_MergedBatch ==
    run # None =>
        l2_book = PairLevel2Update([Enter EXCEPT !.book = run.base],
                                   L2Event("update", run.pair, run.batch)).book

C9_Witness ==
    /\ run # None
    /\ run.count = 2
    /\ Len(run.batch) = 2
    /\ run.batch[1].side = run.batch[2].side
    /\ run.batch[1].price_level # run.batch[2].price_level
    /\ run.batch[1].new_quantity # 0
    /\ run.batch[2].new_quantity # 0
    /\ run.base[run.pair] # OrderBook(EmptyDict, EmptyDict)

\* C10: after a websocket snapshot the symbol's bids and asks are exactly the
\* levels the snapshot carries (the last entry of a price deciding), whether
\* or not the symbol had a book, and every other symbol's book is as before.
C10_SnapshotReplaces ==
    SnapshotApplied =>
        /\ PairAt(1) \in DOMAIN l2_book
        /\ \A side \in Sides :
               LET now == l2_book[PairAt(1)][side]
               IN /\ DOMAIN now = {p \in Prices : Named(side, p) # {}}
                  /\ \A p \in DOMAIN now :
                         now[p] = Level(Batch[Max(Named(side, p))].new_quantity)
        /\ \A t \in Symbols \ {PairAt(1)} : SameBook(pre.book, l2_book, t)
        /\ emitted[1].book = l2_book[PairAt(1)]

C10_Witness ==
    /\ SnapshotApplied
    /\ PairAt(1) \in DOMAIN pre.book
    /\ \E side \in Sides : \E p \in DOMAIN pre.book[PairAt(1)][side] :
           /\ Named(side, p) = {}
           /\ p \notin DOMAIN l2_book[PairAt(1)][side]
    /\ Batch # <<>>

-----------------------------------------------------------------------------
(* Atomicity of an update batch *)

Stepped == call.op = "_pair_level2_update"
WholeBatch ==
    ApplyUpdates([book |-> pre.book[exchange_symbol_to_std_symbol(call.msg.product_id)],
                  delta |-> [bid |-> <<>>, ask |-> <<>>]], call.msg.updates)

\* C11: whatever another task reads, none or all of the entries of the batch
\* in hand are applied to it; no callback is issued while entries remain;
\* and once all are applied exactly one callback is issued, carrying the
\* book and the delta of the whole batch.
C11_BatchAtomic ==
    /\ seen # None => seen.applied \in {0, seen.of}
    /\ (Stepped /\ task # None /\ task.pc = "loop") => emitted = <<>>
    /\ (Stepped /\ (outcome.status = Returned \/ (task # None /\ task.pc = "callback")))
           => /\ Len(emitted) = 1
              /\ emitted[1].book = WholeBatch.book
              /\ emitted[1].delta = WholeBatch.delta
              /\ l2_book[emitted[1].pair] = WholeBatch.book

C11_Witness ==
    /\ Stepped
    /\ task # None
    /\ task.pc = "callback"
    /\ Len(call.msg.updates) = 2
    /\ seen # None
    /\ seen.of = 2
    /\ seen.applied = 2
    /\ seen.book = l2_book
    /\ Len(emitted) = 1
    /\ l2_book # pre.book

-----------------------------------------------------------------------------
(* subscribe *)

Subscribed == call.op = "subscribe"
Written == SubSeq(sent, pre.nsent + 1, Len(sent))
Configured == UNION {{subscription[i].symbols[k] : k \in 1 .. Len(subscription[i].symbols)} :
                        i \in 1 .. Len(subscription)}
FirstSeen(x) ==
    LET all == AllPairs(Len(subscription))
    IN CHOOSE k \in 1 .. Len(all) : all[k] = x /\ \A j \in 1 .. k - 1 : all[j] # x

\* C12: subscribe writes one subscribe request per configured channel, in
\* configuration order, each with its channel's symbols, then one heartbeat
\* subscribe whose symbols are those of all channels, each once, in the
\* order they are first met: N channels give N + 1 messages.
C12_SubscribeWrites ==
    Subscribed =>
        LET n == Len(subscription)
            w == Written
        IN /\ Len(w) = n + 1
           /\ \A i \in 1 .. n :
                  /\ w[i].type = "subscribe"
                  /\ w[i].channel = subscription[i].channel
                  /\ w[i].product_ids = subscription[i].symbols
           /\ w[n + 1].type = "subscribe"
           /\ w[n + 1].channel = "heartbeat"
           /\ LET h == w[n + 1].product_ids
              IN /\ {h[k] : k \in 1 .. Len(h)} = Configured
                 /\ \A a, b \in 1 .. Len(h) :
                        /\ h[a] = h[b] => a = b
                        /\ a < b => FirstSeen(h[a]) < FirstSeen(h[b])

C12_Witness ==
    /\ Subscribed
    /\ subscription = Subscription
    /\ Len(Written) = 3
    /\ Written[1].channel = "level2" /\ Written[1].product_ids = <<"S1">>
    /\ Written[2].channel = "market_trades" /\ Written[2].product_ids = <<"S1", "S2">>
    /\ Written[3].channel = "heartbeat" /\ Written[3].product_ids = <<"S1", "S2">>

-----------------------------------------------------------------------------
(* Request signing *)

\* C15: every signed request, a subscribe message or a REST read of
\* _book_snapshot, carries the clock value read when it is issued, so two
\* requests issued at different clock values differ in timestamp and in
\* signature.
C15_FreshTimestamps ==
    /\ \A i \in 1 .. Len(requests) : requests[i].timestamp = requests[i].at
    /\ \A i, j \in 1 .. Len(requests) :
           requests[i].at # requests[j].at
               => /\ requests[i].timestamp # requests[j].timestamp
                  /\ requests[i].signature # requests[j].signature

-----------------------------------------------------------------------------
(* Errors *)

KnownChannels == {"market_trades", "l2_data", "subscriptions"}

\* C13: message_handler returns without raising for every message, a book
\* update for a symbol that has no book included, and a message of an
\* unrecognized channel leaves the books, the order records and the
\* sequence state as they were.
\* It is stated for the messages of the wire shape alone: every event of a
\* book message names its symbol.
WireShaped ==
    call.msg.channel = "l2_data" =>
        \A i \in 1 .. Len(call.msg.events) : call.msg.events[i].product_id # NoKey

C13_HandlerNeverRaises ==
    (Handled /\ WireShaped) =>
        /\ outcome.status # Raised
        /\ call.msg.channel \notin KnownChannels =>
               /\ l2_book = pre.book
               /\ order_map = pre.orders
               /\ seq_no = pre.seq

\* The resync of the last Gap is over and its fetch failed: the read raised
\* or the response does not parse.
FetchFailed ==
    /\ GapHandled
    /\ pending = None
    /\ outcome.responses # <<>>
    /\ outcome.responses[Len(outcome.responses)] \in {TransportError, Unparseable}

FailedFetchContained ==
    /\ outcome.status = Raised
    /\ LastGapPair \notin DOMAIN l2_book
    /\ order_map = EmptyDict
    /\ outcome.fetched = <<LastGapPair>>

\* No operation gives seq_no an entry it lacks: a Gap can be met for a
\* symbol later only if the symbol has its entry now.
NoNewBaseline ==
    \A s \in Symbols : HasBaseline(seq_no', s) => HasBaseline(seq_no, s)

-----------------------------------------------------------------------------
(* Overlapping resyncs *)

InFlight(s) ==
    {c \in {"pending", "adjacent"} :
        LET x == IF c = "pending" THEN pending ELSE adjacent
        IN IF x = None THEN FALSE ELSE \E i \in 1 .. Len(x.pairs) : x.pairs[i] = s}

\* C16: at no time are two snapshot fetches under way for the same symbol.
C16_SingleFlight ==
    \A s \in Symbols : Cardinality(InFlight(s)) <= 1

\* C17: the response of a fetch that a later reset, or a later snapshot of
\* the same symbol, overtook is never written into the books.
C17_NoStaleWrite ==
    revived = FALSE

-----------------------------------------------------------------------------
(* Orders of a REST snapshot that share a price *)

\* _book_snapshot has written the one response of its fetch into the book.
Seeded1 ==
    /\ call.op = "_book_snapshot"
    /\ pending = None
    /\ outcome.status = Returned
    /\ Len(outcome.responses) = 1
    /\ Parses(outcome.responses[1])

SeededPair == exchange_symbol_to_std_symbol(call.pairs[1])
SnapshotOrders(side) ==
    IF side = BID THEN outcome.responses[1].bids ELSE outcome.responses[1].asks

RECURSIVE SizesAt(_, _)
SizesAt(orders, price) ==
    IF orders = <<>> THEN 0
    ELSE (IF Head(orders).price = price THEN Head(orders).size ELSE 0)
         + SizesAt(Tail(orders), price)

RECURSIVE Total(_)
Total(d) ==
    IF DOMAIN d = {} THEN 0
    ELSE LET k == CHOOSE x \in DOMAIN d : TRUE IN d[k] + Total(Del(d, k))

StoredAt(side, price) ==
    LET levels == l2_book[SeededPair][side]
    IN IF price \in DOMAIN levels THEN Total(levels[price].orders) ELSE 0

\* The order ids the snapshot orders of a side at a price are given.
IdsAt(side, price) ==
    {<<side, SnapshotOrders(side)[i].size, price>> :
        i \in {j \in 1 .. Len(SnapshotOrders(side)) : SnapshotOrders(side)[j].price = price}}

\* C18 as stated: for every side and price, the quantities stored at the
\* level add up to the sizes of all snapshot orders at that price, also when
\* two orders have the same side, size and price.
C18_LevelSumsAllOrders ==
    Seeded1 => \A side \in {BID, ASK} : \A price \in Prices :
                  StoredAt(side, price) = SizesAt(SnapshotOrders(side), price)

\* C18, amended: the orders are tracked under the identity (side, size,
\* price).  For every side and price the level holds exactly one entry, of
\* that size, per distinct identity among the snapshot orders at the price,
\* each identity has its order record (price, size), and the level adds up
\* to the sizes of the distinct identities: orders of equal side, size and
\* price count once.
C18_DistinctOrdersTracked ==
    Seeded1 => \A side \in {BID, ASK} : \A price \in Prices :
                  LET levels == l2_book[SeededPair][side]
                      ids == IdsAt(side, price)
                  IN /\ (price \in DOMAIN levels) = (ids # {})
                     /\ ids # {} =>
                           /\ DOMAIN levels[price].orders = ids
                           /\ \A id \in ids :
                                 /\ levels[price].orders[id] = id[2]
                                 /\ id \in DOMAIN order_map
                                 /\ order_map[id] = <<price, id[2]>>
                     /\ StoredAt(side, price) = Total([id \in ids |-> id[2]])

\* Two bids of different sizes at one price were both stored at the level.
C18_Witness ==
    /\ Seeded1
    /\ \E price \in Prices :
          /\ Cardinality(IdsAt(BID, price)) = 2
          /\ StoredAt(BID, price) = SizesAt(SnapshotOrders(BID), price)
          /\ StoredAt(BID, price) > 0

-----------------------------------------------------------------------------
(* Messages of several events *)

Events == call.msg.events
Sequenced ==
    /\ Handled
    /\ call.msg.channel = "l2_data"
    /\ call.msg.sequence_num # NoSeq
    /\ \A i \in 1 .. Len(Events) : Events[i].product_id # NoKey

\* Every event's symbol had a baseline one below the message's number when
\* the message arrived.
NextInOrder ==
    \A i \in 1 .. Len(Events) :
        /\ HasBaseline(pre.seq, PairAt(i))
        /\ call.msg.sequence_num = pre.seq[PairAt(i)] + 1

\* C20: a message is applied as a whole.  When its sequence_num is the last
\* accepted number + 1 of the symbol of each of its events, every event is
\* classified Accept and dispatched; and when the handler takes the Stale or
\* the Gap branch at one of its events, no earlier event of the message was
\* applied.
C20_MessageAppliedWhole ==
    Sequenced =>
        /\ NextInOrder =>
               /\ Len(Trace) = Len(Events)
               /\ \A i \in 1 .. Len(Trace) : Trace[i].class = "Accept"
        /\ \A i \in 1 .. Len(Trace) :
               Trace[i].class \in {"Stale", "Gap"} =>
                   \A j \in 1 .. i - 1 : ~EventEmitted(j)

-----------------------------------------------------------------------------
(* No baseline is ever assigned *)

UpdateAt(i) ==
    /\ call.msg.channel = "l2_data"
    /\ call.msg.events[i].type = "update"
    /\ call.msg.events[i].product_id # NoKey

\* C19: from __init__, under subscribe, message_handler and _book_snapshot,
\* the sequence baseline stays unset, so every event the handler meets is
\* classified Accept (never Stale, Gap or dropped), and an update for a
\* symbol with a book is applied and its callback issued whatever the
\* message's sequence_num.
C19_NeverSequenced ==
    /\ seq_no = None
    /\ Handled =>
           /\ \A i \in 1 .. Len(Trace) : Trace[i].class = "Accept"
           /\ outcome.resync = <<>>
           /\ outcome.status # Raised => Len(Trace) = Len(call.msg.events)
           /\ (Len(Trace) = 1 /\ UpdateAt(1) /\ PairAt(1) \in DOMAIN pre.book) =>
                  /\ EventEmitted(1)
                  /\ l2_book[PairAt(1)] =
                         PairLevel2Update([Enter EXCEPT !.book = pre.book],
                                          call.msg.events[1]).book[PairAt(1)]

\* An update numbered below the update applied before it to the same
\* symbol was applied and changed the book.
C19_Witness ==
    /\ Handled
    /\ Len(Trace) = 1
    /\ UpdateAt(1)
    /\ applied.prev[PairAt(1)] > 0
    /\ call.msg.sequence_num < applied.prev[PairAt(1)]
    /\ applied.last[PairAt(1)] = call.msg.sequence_num
    /\ EventEmitted(1)
    /\ l2_book[PairAt(1)] # pre.book[PairAt(1)]
    /\ seq_no = None

====
